---- MODULE Spec2Model ----
(***************************************************************************)
(* Model of projects/silicon/index.js: the Silicon.net TVL adapter.        *)
(*                                                                         *)
(* JavaScript strings are sequences of one-character strings, so that      *)
(* toUpperCase and includes are computed character by character.  Other    *)
(* JavaScript values are tagged records (field t is the typeof tag).       *)
(***************************************************************************)
EXTENDS Integers, Sequences, FiniteSets, TLC

(***************************************************************************)
(* Bounds of the model.                                                    *)
(***************************************************************************)
\* type strings are concatenations of at most MaxParts parts of TypeParts
MaxParts == 2
\* record lists handed to calculateGPUValue on its own have at most MaxRecords records
MaxRecords == 4
\* the listing endpoint serves a full page only for pages below MaxPages
MaxPages == 3

(***************************************************************************)
(* JavaScript values.                                                      *)
(***************************************************************************)
Undefined == [t |-> "undefined"]
Null == [t |-> "null"]
Str(s) == [t |-> "string", v |-> s]
Num(n) == [t |-> "number", v |-> n]
\* a thrown exception, as the outcome of a call
Throw(e) == [t |-> "throw", v |-> e]
\* a plain object of the listing: { gpu_type: ... }; an absent field reads as undefined
Gpu(type) == [t |-> "object", gpu_type |-> type]

\* ToBoolean(x) is false: undefined, null, '', 0
Falsy(x) ==
  \/ x.t = "undefined"
  \/ x.t = "null"
  \/ (x.t = "string" /\ x.v = << >>)
  \/ (x.t = "number" /\ x.v = 0)

(***************************************************************************)
(* Strings.                                                                *)
(***************************************************************************)
LowerCase == <<"a","b","c","d","e","f","g","h","i","j","k","l","m",
               "n","o","p","q","r","s","t","u","v","w","x","y","z">>
UpperCase == <<"A","B","C","D","E","F","G","H","I","J","K","L","M",
               "N","O","P","Q","R","S","T","U","V","W","X","Y","Z">>
UpperOf == [c \in {LowerCase[i] : i \in 1..26} |->
              UpperCase[CHOOSE i \in 1..26 : LowerCase[i] = c]] @@ << >>

\* String.prototype.toUpperCase on the characters the model uses
toUpperCase(s) ==
  [i \in 1..Len(s) |-> IF s[i] \in DOMAIN UpperOf THEN UpperOf[s[i]] ELSE s[i]]

\* String.prototype.includes: sub occurs in s at some position
includes(s, sub) ==
  \E i \in 1..(Len(s) - Len(sub) + 1) : SubSeq(s, i, i + Len(sub) - 1) = sub

Digits == <<"0","1","2","3","4","5","6","7","8","9">>
DigitOf == [c \in {Digits[i] : i \in 1..10} |->
              (CHOOSE i \in 1..10 : Digits[i] = c) - 1] @@ << >>

\* the number a string of digits denotes
RECURSIVE NumberOf(_)
NumberOf(s) ==
  IF s = << >> THEN 0
  ELSE 10 * NumberOf(SubSeq(s, 1, Len(s) - 1)) + DigitOf[s[Len(s)]]

\* a property key that is an integer index: a canonical numeric string
IsIntegerKey(s) ==
  /\ Len(s) > 0
  /\ \A i \in 1..Len(s) : s[i] \in DOMAIN DigitOf
  /\ (Len(s) > 1 => s[1] # "0")

(***************************************************************************)
(* Objects: the own properties in insertion order, as <<key, value>>.      *)
(***************************************************************************)
RECURSIVE InsertAscending(_, _)
InsertAscending(keys, k) ==
  IF keys = << >> \/ NumberOf(k) < NumberOf(Head(keys)) THEN <<k>> \o keys
  ELSE <<Head(keys)>> \o InsertAscending(Tail(keys), k)

RECURSIVE OwnKeys(_, _, _)
OwnKeys(obj, ints, strs) ==
  IF obj = << >> THEN ints \o strs
  ELSE LET k == Head(obj)[1] IN
       IF IsIntegerKey(k) THEN OwnKeys(Tail(obj), InsertAscending(ints, k), strs)
       ELSE OwnKeys(Tail(obj), ints, Append(strs, k))

\* Object.keys: integer keys in ascending numeric order, then the others in
\* insertion order
ObjectKeys(obj) == OwnKeys(obj, << >>, << >>)

\* obj[key] of an own property
GetProp(obj, key) == obj[CHOOSE i \in 1..Len(obj) : obj[i][1] = key][2]

\* the object literal of GPU_PRICES, in the order it is written
PriceTable ==
  << << <<"4","0","9","0">>, 3500 >>,
     << <<"5","0","9","0">>, 5000 >>,
     << <<"H","1","0","0">>, 21000 >>,
     << <<"H","2","0","0">>, 31000 >>,
     << <<"A","6","0","0","0">>, 6000 >>,
     << <<"A","5","0","0","0">>, 2000 >>,
     << <<"4","0","0","0","A","d","a">>, 1500 >> >>

POOL_TOKEN == "0xb59781c5bf9330b9bb7ce64df7cc118fec28b744"
pageSize == 100

\* the entry point invocations the harness may have running at the same time
Invocations == {"inv1", "inv2"}

VARIABLES
  GPU_PRICES,   \* the module-level price object
  entry,        \* entry[i]: the entry point invocation i runs ("none" before it starts)
  pc,           \* pc[i]: where invocation i stands
  page,         \* page[i]: the local page of fetchAllGPUNFTs
  allGPUs,      \* allGPUs[i]: the local accumulator of fetchAllGPUNFTs
  outstanding,  \* outstanding[i]: the pages whose get(url) has no response yet
  inbox,        \* inbox[i]: the outcome of get(url) the await has yet to resume with
  httpLog,      \* httpLog[i]: the get(url) calls and their outcomes, in order
  apiLog,       \* apiLog[i]: the calls made on the api object, in order
  arg,          \* the argument of a function applied on its own
  ret           \* what that application returned (None before it)

machine == <<entry, pc, page, allGPUs, outstanding, inbox, httpLog, apiLog>>
vars == <<GPU_PRICES, machine, arg, ret>>

None == [t |-> "none"]

(***************************************************************************)
(* normalizeGPUType                                                        *)
(***************************************************************************)
RECURSIVE FirstIncludedAsWritten(_, _)
\* the loop with the key compared as written, not in upper case
FirstIncludedAsWritten(type, keys) ==
  IF keys = << >> THEN Null
  ELSE IF includes(type, Head(keys)) THEN Str(Head(keys))
  ELSE FirstIncludedAsWritten(type, Tail(keys))

RECURSIVE FirstIncluded(_, _)
\* the for-of loop over the keys: the first key whose upper case type includes
FirstIncluded(type, keys) ==
  IF keys = << >> THEN Null
  ELSE IF includes(type, toUpperCase(Head(keys))) THEN Str(Head(keys))
  ELSE FirstIncluded(type, Tail(keys))

normalizeGPUType(gpuType) ==
  IF Falsy(gpuType) THEN Null
  ELSE IF gpuType.t # "string" THEN Throw("TypeError")
  ELSE FirstIncluded(toUpperCase(gpuType.v), ObjectKeys(GPU_PRICES))

(***************************************************************************)
(* calculateGPUValue                                                       *)
(***************************************************************************)
\* gpuCounts after Object.keys(GPU_PRICES).forEach(key => gpuCounts[key] = 0)
InitialCounts == [k \in {GPU_PRICES[i][1] : i \in 1..Len(GPU_PRICES)} |-> 0]

\* normalizeGPUType tabulated over the gpu_type values that occur in gpus: the
\* function is pure, so each distinct value is classified once per call
NormalizedTypes(gpus) ==
  [type \in {gpus[i].gpu_type : i \in {j \in 1..Len(gpus) : gpus[j].t = "object"}}
     |-> normalizeGPUType(type)] @@ << >>

\* one call of the gpus.forEach callback on st = [counts, uncategorized, thrown];
\* normalized[type] is normalizeGPUType(type)
CountOne(st, gpu, normalized) ==
  IF st.thrown # "none" THEN st
  ELSE IF gpu.t # "object" THEN [st EXCEPT !.thrown = "TypeError"]
  ELSE LET normalizedType == normalized[gpu.gpu_type] IN
       IF normalizedType.t = "throw" THEN [st EXCEPT !.thrown = normalizedType.v]
       ELSE IF ~Falsy(normalizedType) /\ normalizedType.v \in DOMAIN st.counts
       THEN [st EXCEPT !.counts[normalizedType.v] = @ + 1]
       ELSE IF \E i \in 1..Len(st.uncategorized) : st.uncategorized[i] = gpu.gpu_type
       THEN st
       ELSE [st EXCEPT !.uncategorized = Append(@, gpu.gpu_type)]

RECURSIVE CountAll(_, _, _, _, _)
\* gpus.forEach over gpus[lo..hi], left to right; an exception ends it.  (The
\* range is split in halves only to bound the depth of the evaluation.)
CountAll(st, gpus, lo, hi, normalized) ==
  IF lo > hi THEN st
  ELSE IF lo = hi THEN CountOne(st, gpus[lo], normalized)
  ELSE LET mid == (lo + hi) \div 2
           left == CountAll(st, gpus, lo, mid, normalized)
       IN  IF left.thrown # "none" THEN left
           ELSE CountAll(left, gpus, mid + 1, hi, normalized)

RECURSIVE TotalValueAssigned(_, _, _)
\* the sum with totalValue = in place of totalValue +=
TotalValueAssigned(counts, keys, totalValue) ==
  IF keys = << >> THEN totalValue
  ELSE TotalValueAssigned(counts, Tail(keys),
                          counts[Head(keys)] * GetProp(GPU_PRICES, Head(keys)))

RECURSIVE TotalValue(_, _, _)
\* totalValue += gpuCounts[gpuType] * GPU_PRICES[gpuType], over Object.keys
TotalValue(counts, keys, totalValue) ==
  IF keys = << >> THEN totalValue
  ELSE TotalValue(counts, Tail(keys),
                  totalValue + counts[Head(keys)] * GetProp(GPU_PRICES, Head(keys)))

\* the counting pass of calculateGPUValue
CountGPUs(gpus) ==
  CountAll([counts |-> InitialCounts, uncategorized |-> << >>, thrown |-> "none"],
           gpus, 1, Len(gpus), NormalizedTypes(gpus))

calculateGPUValue(gpus) ==
  LET st == CountGPUs(gpus) IN
  IF st.thrown # "none" THEN Throw(st.thrown)
  ELSE Num(TotalValue(st.counts, ObjectKeys(GPU_PRICES), 0))


(***************************************************************************)
(* What the listing endpoint may answer: the outcomes of get(url).         *)
(***************************************************************************)
RTX4090 == Gpu(Str(<<"R","T","X"," ","4","0","9","0">>))
H100SXM == Gpu(Str(<<"H","1","0","0","-","S","X","M">>))
UnknownGPU == Gpu(Str(<<"u","n","k","n","o","w","n","G","P","U">>))
LowerA5000 == Gpu(Str(<<"r","t","x"," ","a","5","0","0","0">>))
Ada6000 == Gpu(Str(<<"4","0","0","0","A","D","A","6","0","0","0">>))
EmptyType == Gpu(Str(<< >>))
AbsentType == Gpu(Undefined)
NullType == Gpu(Null)
NumberType == Gpu(Num(4090))

\* the record set of the specification's example
ExampleRecords == <<RTX4090, RTX4090, H100SXM, UnknownGPU>>
OtherRecords == <<LowerA5000, EmptyType, Ada6000, AbsentType, NullType>>
\* records the listing is not supposed to hold: a numeric gpu_type, a null element
MalformedRecords == <<RTX4090, NumberType, Null>>

\* an array of n records that repeats pattern
Listing(n, pattern) == [i \in 1..n |-> pattern[((i - 1) % Len(pattern)) + 1]]

Arr(elems) == [t |-> "array", v |-> elems]
Body(data) == [t |-> "object", data |-> data]

\* the outcomes that carry pageSize records
FullIds == {"full"}
ResponseIds ==
  {"rejects", "nobody", "absent", "nonarray", "empty", "short", "malformed",
   "almost"} \cup FullIds

\* the records of a full page p of the listing: pages differ, so that the order
\* of the accumulated pages shows
FullPage(p) ==
  Listing(pageSize, IF p % 2 = 1 THEN ExampleRecords ELSE OtherRecords)

\* the outcome of get(url) for page p: a thrown error or the resolved value
ResponseOf(id, p) ==
  CASE id = "rejects"   -> Throw("Error")
    [] id = "nobody"    -> Undefined
    [] id = "absent"    -> Body(Undefined)
    [] id = "nonarray"  -> Body(Str(<<"o","k">>))
    [] id = "empty"     -> Body(Arr(<< >>))
    [] id = "short"     -> Body(Arr(ExampleRecords))
    [] id = "malformed" -> Body(Arr(MalformedRecords))
    [] id = "almost"    -> Body(Arr(Listing(pageSize - 1, OtherRecords)))
    [] id = "full"      -> Body(Arr(FullPage(p)))

\* what api.call may resolve to under permitFailure: no value, or the supply
CallResults ==
  {Undefined, Null, Num(0), Num(12345), Str(<<"1","2","3","4","5">>)}

(***************************************************************************)
(* fetchAllGPUNFTs                                                         *)
(***************************************************************************)
\* page += 2
NextPageSkips(p) == p + 2

\* page++
NextPage(p) == p + 1

\* allGPUs as a module-level array, shared by the calls
StoreAllGPUsShared(i, value) == allGPUs' = [j \in Invocations |-> value]

\* allGPUs is local to the call: a write reaches the caller's accumulator only
StoreAllGPUs(i, value) == allGPUs' = [allGPUs EXCEPT ![i] = value]

\* const response = await get(url), up to the await: the request for page p
\* leaves, with have records accumulated
GetCall(i, log, p, have) ==
  /\ outstanding' = [outstanding EXCEPT ![i] = @ \cup {p}]
  /\ httpLog' = [httpLog EXCEPT ![i] = Append(log, [e |-> "get", page |-> p, have |-> have])]

\* the try block with the last-page test as length <= pageSize
TryBlockStopsOnFull(acc, response) ==
  IF response.t \in {"undefined", "null"} THEN [how |-> "throws", allGPUs |-> acc]
  ELSE LET gpuData == response.data IN
       IF Falsy(gpuData) \/ gpuData.t # "array" \/ Len(gpuData.v) = 0
       THEN [how |-> "break", allGPUs |-> acc]
       ELSE IF Len(gpuData.v) <= pageSize
       THEN [how |-> "break", allGPUs |-> acc \o gpuData.v]
       ELSE [how |-> "continue", allGPUs |-> acc \o gpuData.v]

\* the try block without the last-page test: only an empty page ends the loop
TryBlockIgnoresShort(acc, response) ==
  IF response.t \in {"undefined", "null"} THEN [how |-> "throws", allGPUs |-> acc]
  ELSE LET gpuData == response.data IN
       IF Falsy(gpuData) \/ gpuData.t # "array" \/ Len(gpuData.v) = 0
       THEN [how |-> "break", allGPUs |-> acc]
       ELSE [how |-> "continue", allGPUs |-> acc \o gpuData.v]

\* the body of the try block on a resolved response: "throws" on a value without
\* properties, "break" or "continue" with the accumulator after allGPUs.push
TryBlock(acc, response) ==
  IF response.t \in {"undefined", "null"} THEN [how |-> "throws", allGPUs |-> acc]
  ELSE LET gpuData == response.data IN
       IF Falsy(gpuData) \/ gpuData.t # "array" \/ Len(gpuData.v) = 0
       THEN [how |-> "break", allGPUs |-> acc]
       ELSE IF Len(gpuData.v) < pageSize
       THEN [how |-> "break", allGPUs |-> acc \o gpuData.v]
       ELSE [how |-> "continue", allGPUs |-> acc \o gpuData.v]

\* the loop turn with a catch that returns an empty list
LoopTurnDropsOnError(acc, outcome) ==
  IF outcome.t = "throw" THEN [how |-> "break", allGPUs |-> << >>]
  ELSE LET r == TryBlock(acc, outcome) IN
       IF r.how = "throws" THEN [how |-> "break", allGPUs |-> << >>] ELSE r

\* one turn of the while loop on the outcome of get(url): catch breaks
LoopTurn(acc, outcome) ==
  IF outcome.t = "throw" THEN [how |-> "break", allGPUs |-> acc]
  ELSE LET r == TryBlock(acc, outcome) IN
       IF r.how = "throws" THEN [how |-> "break", allGPUs |-> acc] ELSE r

\* nfts(api) is called: fetchAllGPUNFTs starts and requests page 1
NftsStart(i) ==
  /\ pc[i] = "idle"
  /\ entry' = [entry EXCEPT ![i] = "nfts"]
  /\ StoreAllGPUs(i, << >>)
  /\ page' = [page EXCEPT ![i] = 1]
  /\ GetCall(i, httpLog[i], 1, 0)
  /\ pc' = [pc EXCEPT ![i] = "get"]
  /\ UNCHANGED <<GPU_PRICES, inbox, apiLog, arg, ret>>

\* the promise of get(url) settles with outcome id
Settle(i, id) ==
  /\ pc[i] = "get"
  /\ page[i] \in outstanding[i]
  /\ inbox[i] = "none"
  /\ outstanding' = [outstanding EXCEPT ![i] = @ \ {page[i]}]
  /\ inbox' = [inbox EXCEPT ![i] = id]
  /\ httpLog' = [httpLog EXCEPT ![i] = Append(@, [e |-> "outcome", page |-> page[i], id |-> id])]
  /\ UNCHANGED <<GPU_PRICES, entry, pc, page, allGPUs, apiLog, arg, ret>>

\* the listing endpoint answers; it holds fewer than MaxPages full pages
GetSettles(i, id) ==
  /\ (id \in FullIds => page[i] < MaxPages)
  /\ Settle(i, id)

\* the await resumes with the outcome: the rest of the loop turn, and either the
\* next request or the return of allGPUs (page and allGPUs are followed up to
\* page MaxPages)
GetResumes(i) ==
  /\ pc[i] = "get"
  /\ inbox[i] # "none"
  /\ (inbox[i] \in FullIds => page[i] < MaxPages)
  /\ LET turn == LoopTurn(allGPUs[i], ResponseOf(inbox[i], page[i])) IN
     /\ StoreAllGPUs(i, turn.allGPUs)
     /\ IF turn.how = "continue"
        THEN /\ page' = [page EXCEPT ![i] = NextPage(@)]
             /\ GetCall(i, httpLog[i], NextPage(page[i]), Len(turn.allGPUs))
             /\ pc' = pc
        ELSE /\ UNCHANGED <<page, outstanding, httpLog>>
             /\ pc' = [pc EXCEPT ![i] = "fetched"]
  /\ inbox' = [inbox EXCEPT ![i] = "none"]
  /\ UNCHANGED <<GPU_PRICES, entry, apiLog, arg, ret>>

(***************************************************************************)
(* nfts and tokens                                                         *)
(***************************************************************************)
\* nfts after await fetchAllGPUNFTs(): calculateGPUValue, then api.addUSDValue;
\* an exception of calculateGPUValue rejects the promise nfts returned
NftsValue(i) ==
  /\ pc[i] = "fetched"
  /\ LET gpuValue == calculateGPUValue(allGPUs[i]) IN
     IF gpuValue.t = "throw"
     THEN /\ pc' = [pc EXCEPT ![i] = "rejected"]
          /\ apiLog' = apiLog
     ELSE /\ pc' = [pc EXCEPT ![i] = "resolved"]
          /\ apiLog' = [apiLog EXCEPT ![i] = Append(@, [op |-> "addUSDValue", value |-> gpuValue])]
  /\ UNCHANGED <<GPU_PRICES, entry, page, allGPUs, outstanding, inbox, httpLog, arg, ret>>

\* tokens(api) is called: api.call({target, abi, permitFailure}) leaves
TokensStart(i) ==
  /\ pc[i] = "idle"
  /\ entry' = [entry EXCEPT ![i] = "tokens"]
  /\ apiLog' = [apiLog EXCEPT ![i] = Append(@, [op |-> "call", target |-> POOL_TOKEN,
                                                abi |-> "erc20:totalSupply",
                                                permitFailure |-> TRUE])]
  /\ pc' = [pc EXCEPT ![i] = "call"]
  /\ UNCHANGED <<GPU_PRICES, page, allGPUs, outstanding, inbox, httpLog, arg, ret>>

\* the calls on api after the await of api.call: api.add if the supply is truthy
AfterCall(poolTokenSupply) ==
  IF ~Falsy(poolTokenSupply)
  THEN <<[op |-> "add", token |-> POOL_TOKEN, value |-> poolTokenSupply]>>
  ELSE << >>

\* the await of api.call ends with poolTokenSupply
CallSettles(i, poolTokenSupply) ==
  /\ pc[i] = "call"
  /\ apiLog' = [apiLog EXCEPT ![i] =
       Append(@, [op |-> "returned", value |-> poolTokenSupply]) \o AfterCall(poolTokenSupply)]
  /\ pc' = [pc EXCEPT ![i] = "resolved"]
  /\ UNCHANGED <<GPU_PRICES, entry, page, allGPUs, outstanding, inbox, httpLog, arg, ret>>

(***************************************************************************)
(* The harness: invocations of the two entry points, interleaved.          *)
(***************************************************************************)
InitMachine ==
  /\ GPU_PRICES = PriceTable
  /\ entry = [i \in Invocations |-> "none"]
  /\ pc = [i \in Invocations |-> "idle"]
  /\ page = [i \in Invocations |-> 0]
  /\ allGPUs = [i \in Invocations |-> << >>]
  /\ outstanding = [i \in Invocations |-> {}]
  /\ inbox = [i \in Invocations |-> "none"]
  /\ httpLog = [i \in Invocations |-> << >>]
  /\ apiLog = [i \in Invocations |-> << >>]

Init == InitMachine /\ arg = None /\ ret = None

Next ==
  \E i \in Invocations :
    \/ NftsStart(i)
    \/ \E id \in ResponseIds : GetSettles(i, id)
    \/ GetResumes(i)
    \/ NftsValue(i)
    \/ TokensStart(i)
    \/ \E v \in CallResults : CallSettles(i, v)

Spec == Init /\ [][Next]_vars

(***************************************************************************)
(* A listing without end.  The loop has no page limit: an endpoint that    *)
(* keeps serving full pages keeps it turning.  Past page MaxPages the      *)
(* model no longer follows page, allGPUs and httpLog, which only grow and  *)
(* which no condition of the loop reads: the turn leaves them as they are. *)
(***************************************************************************)
\* the endpoint serves one more full page, at or past page MaxPages
GetSettlesBeyond(i) ==
  /\ pc[i] = "get"
  /\ page[i] = MaxPages
  /\ page[i] \in outstanding[i]
  /\ inbox[i] = "none"
  /\ outstanding' = [outstanding EXCEPT ![i] = {}]
  /\ inbox' = [inbox EXCEPT ![i] = "full"]
  /\ UNCHANGED <<GPU_PRICES, entry, pc, page, allGPUs, httpLog, apiLog, arg, ret>>

\* the await resumes with that page: it is accumulated and the next is requested
GetResumesBeyond(i) ==
  /\ pc[i] = "get"
  /\ page[i] = MaxPages
  /\ inbox[i] \in FullIds
  /\ LoopTurn(allGPUs[i], ResponseOf(inbox[i], page[i])).how = "continue"
  /\ outstanding' = [outstanding EXCEPT ![i] = {page[i]}]
  /\ inbox' = [inbox EXCEPT ![i] = "none"]
  /\ UNCHANGED <<GPU_PRICES, entry, pc, page, allGPUs, httpLog, apiLog, arg, ret>>

NextLive ==
  \/ Next
  \/ \E i \in Invocations : GetSettlesBeyond(i)
  \/ \E i \in Invocations : GetResumesBeyond(i)

\* every request is answered or fails, and every settled await resumes
SpecLive ==
  /\ Init
  /\ [][NextLive]_vars
  /\ \A i \in Invocations :
       /\ WF_vars((\E id \in ResponseIds : GetSettles(i, id)) \/ GetSettlesBeyond(i))
       /\ WF_vars(GetResumes(i) \/ GetResumesBeyond(i))

(***************************************************************************)
(* normalizeGPUType applied on its own.                                    *)
(***************************************************************************)
\* the parts type strings are put together from: the keys as written, in other
\* cases, near misses and surrounding text
TypeParts ==
  { <<"4","0","9","0">>, <<"5","0","9","0">>, <<"H","1","0","0">>, <<"H","2","0","0">>,
    <<"A","6","0","0","0">>, <<"A","5","0","0","0">>, <<"4","0","0","0","A","d","a">>,
    <<"h","1","0","0">>, <<"h","2","0","0">>, <<"a","6","0","0","0">>, <<"a","5","0","0","0">>,
    <<"4","0","0","0","a","d","a">>, <<"4","0","0","0","A","D">>,
    <<"6","0","0","0">>, <<"4","0","9">>, <<"0">>, <<"A">>,
    <<"R","T","X"," ">>, <<"-","S","X","M">>, <<"u","n","k","n","o","w","n","G","P","U">> }

RECURSIVE Concatenations(_)
Concatenations(n) ==
  IF n = 0 THEN {<< >>}
  ELSE LET shorter == Concatenations(n - 1) IN
       shorter \cup {s \o part : s \in shorter, part \in TypeParts}

\* the arguments: strings (the empty one among them), undefined and null
TypeInputs == {Str(s) : s \in Concatenations(MaxParts)} \cup {Undefined, Null}

InitNormalize == InitMachine /\ arg \in TypeInputs /\ ret = None

ApplyNormalize ==
  /\ ret = None
  /\ ret' = normalizeGPUType(arg)
  /\ UNCHANGED <<GPU_PRICES, machine, arg>>

SpecNormalize == InitNormalize /\ [][ApplyNormalize]_vars

(***************************************************************************)
(* calculateGPUValue applied on its own.                                   *)
(***************************************************************************)
RecordChoices ==
  {RTX4090, H100SXM, UnknownGPU, Ada6000, LowerA5000, EmptyType, AbsentType,
   NumberType, Null}

RECURSIVE ListsUpTo(_)
ListsUpTo(n) ==
  IF n = 0 THEN {<< >>}
  ELSE LET shorter == ListsUpTo(n - 1) IN
       shorter \cup {Append(l, r) : l \in shorter, r \in RecordChoices}

InitValue == InitMachine /\ arg \in ListsUpTo(MaxRecords) /\ ret = None

ApplyValue ==
  /\ ret = None
  /\ ret' = calculateGPUValue(arg)
  /\ UNCHANGED <<GPU_PRICES, machine, arg>>

SpecValue == InitValue /\ [][ApplyValue]_vars

(***************************************************************************)
(* C1.  For every type string, normalizeGPUType returns the first key, in  *)
(* the order 4090, 5090, H100, H200, A6000, A5000, 4000Ada, whose upper    *)
(* case form is a substring of the upper case input; it returns null when  *)
(* no key is contained or the input is empty or absent.                    *)
(***************************************************************************)
DefinitionOrder ==
  << <<"4","0","9","0">>, <<"5","0","9","0">>, <<"H","1","0","0">>, <<"H","2","0","0">>,
     <<"A","6","0","0","0">>, <<"A","5","0","0","0">>, <<"4","0","0","0","A","d","a">> >>

\* key number n is contained in string s, cases ignored
Contains(s, n) == includes(toUpperCase(s), toUpperCase(DefinitionOrder[n]))

FirstContained(s) ==
  IF \E n \in 1..Len(DefinitionOrder) : Contains(s, n)
  THEN Str(DefinitionOrder[CHOOSE n \in 1..Len(DefinitionOrder) :
                             Contains(s, n) /\ \A m \in 1..(n - 1) : ~Contains(s, m)])
  ELSE Null

C1_FirstKeyInDefinitionOrder ==
  ret # None =>
    ret = (IF arg.t = "string" /\ arg.v # << >> THEN FirstContained(arg.v) ELSE Null)

\* a lower case input that contains 4000Ada and, later in the table order but
\* first found, A6000
C1_Witness ==
  /\ arg = Str(<<"4","0","0","0","a","d","a","6","0","0","0">>)
  /\ ret = Str(<<"A","6","0","0","0">>)

(***************************************************************************)
(* C2.  For every list of records (each an object whose gpu_type is a      *)
(* string or is empty or absent), calculateGPUValue returns the sum over   *)
(* the records of the unit price of the key the gpu_type classifies to,    *)
(* zero for a record that classifies to no key; the total is never         *)
(* negative, and the unclassified records do not change it.                *)
(***************************************************************************)
IsRecord(gpu) ==
  gpu.t = "object" /\ gpu.gpu_type.t \in {"string", "undefined", "null"}

\* the unit price the claim gives a record
UnitPrice(gpu) ==
  LET key == IF gpu.gpu_type.t = "string" /\ gpu.gpu_type.v # << >>
             THEN FirstContained(gpu.gpu_type.v) ELSE Null
  IN  IF key = Null THEN 0
      ELSE PriceTable[CHOOSE n \in 1..Len(PriceTable) : PriceTable[n][1] = key.v][2]

RECURSIVE SumOfUnitPrices(_)
SumOfUnitPrices(gpus) ==
  IF gpus = << >> THEN 0 ELSE UnitPrice(Head(gpus)) + SumOfUnitPrices(Tail(gpus))

Classified(gpu) == UnitPrice(gpu) > 0
OnlyClassified(gpus) == SelectSeq(gpus, Classified)

C2_TotalIsSumOfUnitPrices ==
  (ret # None /\ \A n \in 1..Len(arg) : IsRecord(arg[n])) =>
    /\ ret = Num(SumOfUnitPrices(arg))
    /\ ret.v >= 0
    /\ ret = calculateGPUValue(OnlyClassified(arg))

\* the example of the specification: 2 x 3500 + 21000, one record unclassified
C2_Witness ==
  /\ arg = <<RTX4090, RTX4090, H100SXM, UnknownGPU>>
  /\ ret = Num(28000)

(***************************************************************************)
(* What an invocation asked of the endpoint and was served, from httpLog.  *)
(***************************************************************************)
IsGet(event) == event.e = "get"
IsOutcome(event) == event.e = "outcome"
Gets(i) == SelectSeq(httpLog[i], IsGet)
Outcomes(i) == SelectSeq(httpLog[i], IsOutcome)

\* the request or the parsing of the page failed
Failed(event) == event.id \in {"rejects", "nobody"}

\* the record list an outcome carries: empty when the list is absent
ServedList(event) ==
  LET r == ResponseOf(event.id, event.page) IN
  IF r.t = "object" /\ r.data.t = "array" THEN r.data.v ELSE << >>

RECURSIVE ServedUpTo(_, _)
\* the lists of the first k outcomes, one after the other
ServedUpTo(outs, k) ==
  IF k = 0 THEN << >> ELSE ServedUpTo(outs, k - 1) \o ServedList(outs[k])

\* fetchAllGPUNFTs of invocation i has returned
Returned(i) == entry[i] = "nfts" /\ pc[i] \in {"fetched", "resolved", "rejected"}

(***************************************************************************)
(* C3.  When no page request fails, fetchAllGPUNFTs returns the lists of   *)
(* pages 1..k one after the other, in page order, where k is the first     *)
(* page whose list is empty, absent or shorter than pageSize, and it made  *)
(* exactly k requests, for the pages 1..k.                                 *)
(***************************************************************************)
C3_ReturnsPagesUpToFirstShort ==
  \A i \in Invocations :
    LET outs == Outcomes(i)
        k == Len(outs)
    IN  (Returned(i) /\ \A j \in 1..k : ~Failed(outs[j])) =>
          /\ k >= 1
          /\ Len(ServedList(outs[k])) < pageSize
          /\ \A j \in 1..(k - 1) : Len(ServedList(outs[j])) >= pageSize
          /\ allGPUs[i] = ServedUpTo(outs, k)
          /\ Len(Gets(i)) = k
          /\ \A j \in 1..k : Gets(i)[j].page = j /\ outs[j].page = j

\* pages 1 and 2 full, page 3 empty: 200 records after exactly 3 requests
C3_Witness ==
  \E i \in Invocations :
    /\ Returned(i)
    /\ Len(Outcomes(i)) = 3
    /\ Outcomes(i)[1].id = "full" /\ Outcomes(i)[2].id = "full" /\ Outcomes(i)[3].id = "empty"
    /\ Len(allGPUs[i]) = 2 * pageSize
    /\ Len(Gets(i)) = 3

(***************************************************************************)
(* C4.  If the request or the parsing of page k fails, after k-1 full      *)
(* pages, fetchAllGPUNFTs does not raise: it makes no further request,     *)
(* does not retry page k, and returns the records of pages 1..k-1.         *)
(***************************************************************************)
C4_FailureReturnsAccumulated ==
  \A i \in Invocations :
    LET outs == Outcomes(i)
        k == Len(outs)
    IN  (k >= 1 /\ Failed(outs[k])) =>
          /\ \A j \in 1..(k - 1) : outs[j].id \in FullIds
          /\ Len(Gets(i)) = k
          /\ \A j \in 1..k : Gets(i)[j].page = j
          /\ outstanding[i] = {}
          /\ allGPUs[i] = ServedUpTo(outs, k - 1)
          /\ (inbox[i] = "none" => pc[i] \in {"fetched", "resolved"})

\* page 1 full, the request of page 2 rejects: page 1's records are returned
C4_Witness ==
  \E i \in Invocations :
    /\ pc[i] = "fetched"
    /\ Len(Outcomes(i)) = 2
    /\ Outcomes(i)[1].id = "full" /\ Outcomes(i)[2].id = "rejects"
    /\ allGPUs[i] = FullPage(1)

(***************************************************************************)
(* C5.  In tokens, whenever the totalSupply call yields a value, api.add   *)
(* is called exactly once with POOL_TOKEN and that value unchanged; when   *)
(* it yields no value, api.add is never called and tokens completes.       *)
(***************************************************************************)
IsAdd(c) == c.op = "add"
IsAddUSDValue(c) == c.op = "addUSDValue"
IsCall(c) == c.op = "call"
IsReturned(c) == c.op = "returned"

\* the call yielded a value: anything but undefined and null
YieldsValue(v) == v.t \notin {"undefined", "null"}

C5_SupplyReportedVerbatim ==
  \A i \in Invocations :
    (entry[i] = "tokens" /\ pc[i] = "resolved") =>
      LET supply == SelectSeq(apiLog[i], IsReturned)[1].value
          adds == SelectSeq(apiLog[i], IsAdd)
      IN  IF YieldsValue(supply)
          THEN adds = <<[op |-> "add", token |-> POOL_TOKEN, value |-> supply]>>
          ELSE adds = << >>

(***************************************************************************)
(* C6.  Both entry points always resolve: whatever the endpoint answers    *)
(* and whatever the on-chain call yields, no invocation ends rejected, and *)
(* a finished nfts has reported a number.                                  *)
(***************************************************************************)
C6_AlwaysResolves ==
  \A i \in Invocations :
    /\ pc[i] # "rejected"
    /\ (entry[i] = "nfts" /\ pc[i] = "resolved") =>
         \E n \in 1..Len(apiLog[i]) :
           apiLog[i][n].op = "addUSDValue" /\ apiLog[i][n].value.t = "number"

(***************************************************************************)
(* C7.  The invocations share no mutable state: under every interleaving,  *)
(* each finished invocation made exactly the api calls, and ended the way, *)
(* it would running alone on the answers it got; GPU_PRICES never changes. *)
(***************************************************************************)
RECURSIVE AloneFetch(_, _, _)
\* fetchAllGPUNFTs run on its own on the outcomes outs[j..]
AloneFetch(acc, outs, j) ==
  IF j > Len(outs) THEN acc
  ELSE LET turn == LoopTurn(acc, ResponseOf(outs[j].id, j)) IN
       IF turn.how = "continue" THEN AloneFetch(turn.allGPUs, outs, j + 1)
       ELSE turn.allGPUs

\* [log, pc] of nfts run on its own on the outcomes outs
AloneNfts(outs) ==
  LET gpuValue == calculateGPUValue(AloneFetch(<< >>, outs, 1)) IN
  IF gpuValue.t = "throw" THEN [log |-> << >>, pc |-> "rejected"]
  ELSE [log |-> <<[op |-> "addUSDValue", value |-> gpuValue]>>, pc |-> "resolved"]

\* [log, pc] of tokens run on its own when api.call yields supply
AloneTokens(supply) ==
  [log |-> <<[op |-> "call", target |-> POOL_TOKEN, abi |-> "erc20:totalSupply",
              permitFailure |-> TRUE],
             [op |-> "returned", value |-> supply]>> \o AfterCall(supply),
   pc |-> "resolved"]

C7_NoSharedMutableState ==
  /\ GPU_PRICES = PriceTable
  /\ \A i \in Invocations :
       pc[i] \in {"resolved", "rejected"} =>
         LET alone == IF entry[i] = "nfts" THEN AloneNfts(Outcomes(i))
                      ELSE AloneTokens(SelectSeq(apiLog[i], IsReturned)[1].value)
         IN  apiLog[i] = alone.log /\ pc[i] = alone.pc

\* one nfts has reported its two pages while another nfts, started before the
\* first ended, still waits for its second page
C7_Witness ==
  \E i, j \in Invocations :
    /\ i # j
    /\ entry[i] = "nfts" /\ pc[i] = "resolved" /\ Len(allGPUs[i]) = pageSize + 4
    /\ entry[j] = "nfts" /\ pc[j] = "get" /\ page[j] = 2 /\ Len(allGPUs[j]) = pageSize
    /\ Len(apiLog[i]) = 1

(***************************************************************************)
(* C8.  Within one invocation the pagination loop is sequential: at most   *)
(* one request is outstanding, the pages requested are 1, 2, 3, ... with   *)
(* none skipped or repeated, page N+1 is requested only after the response *)
(* of page N was received and its records appended, and valuation starts   *)
(* only after the loop has ended.                                          *)
(***************************************************************************)
C8_StrictlySequential ==
  \A i \in Invocations :
    LET log == httpLog[i] IN
    /\ Cardinality(outstanding[i]) <= 1
    /\ \A n \in 1..Len(log) :
         IF n % 2 = 1
         THEN /\ IsGet(log[n])
              /\ log[n].page = (n + 1) \div 2
              /\ log[n].have = Len(ServedUpTo(Outcomes(i), log[n].page - 1))
         ELSE /\ IsOutcome(log[n])
              /\ log[n].page = log[n - 1].page
    /\ (outstanding[i] # {} => Len(log) % 2 = 1 /\ outstanding[i] = {log[Len(log)].page})
    /\ (\E n \in 1..Len(apiLog[i]) : IsAddUSDValue(apiLog[i][n])) =>
         /\ pc[i] = "resolved"
         /\ outstanding[i] = {} /\ inbox[i] = "none"
         /\ Len(log) % 2 = 0
    /\ (pc[i] = "fetched" => outstanding[i] = {} /\ inbox[i] = "none" /\ Len(log) % 2 = 0)

\* the request of page 3 is outstanding, the records of pages 1 and 2 appended
C8_Witness ==
  \E i \in Invocations :
    /\ outstanding[i] = {3}
    /\ Len(httpLog[i]) = 5
    /\ Len(allGPUs[i]) = 2 * pageSize

(***************************************************************************)
(* C9.  Once started, every fetch loop runs to completion or to its first  *)
(* error.  As claimed: provided each page request eventually responds or   *)
(* fails, fetchAllGPUNFTs eventually returns.                              *)
(***************************************************************************)
C9_EventuallyReturns ==
  \A i \in Invocations : (pc[i] = "get") ~> Returned(i)

(***************************************************************************)
(* C9, amended.  Provided each page request eventually responds or fails   *)
(* and the endpoint does not serve full pages for ever, fetchAllGPUNFTs    *)
(* eventually returns; and it stops at the first page that is empty,       *)
(* absent, shorter than pageSize or fails: from then on it has no request  *)
(* outstanding, issues none, and once returned stays returned.             *)
(***************************************************************************)
\* the loop of i has met the page it stops at
Stopped(i) == inbox[i] \notin (FullIds \cup {"none"}) \/ Returned(i)

C9_ReturnsUnlessFullForEver ==
  /\ \A i \in Invocations :
       (<>[](inbox[i] \notin FullIds)) => ((pc[i] = "get") ~> Returned(i))
  /\ [](\A i \in Invocations : Stopped(i) => outstanding[i] = {})
  /\ [][\A i \in Invocations :
          Stopped(i) => (Stopped(i)' /\ outstanding'[i] = {} /\ Gets(i)' = Gets(i))]_vars

\* a loop that returned on the empty third page
C9_Witness ==
  \E i \in Invocations :
    /\ pc[i] = "fetched"
    /\ Len(allGPUs[i]) = 2 * pageSize
    /\ Outcomes(i)[Len(Outcomes(i))].id = "empty"

(***************************************************************************)
(* C10.  The stages report independently: every nfts calls api.addUSDValue *)
(* exactly once, after the fetch loop has ended, with the valuation total, *)
(* and never api.add or api.call; every tokens calls api.call exactly once *)
(* and api.add at most once, and never api.addUSDValue or the HTTP helper. *)
(***************************************************************************)
C10_IndependentReports ==
  \A i \in Invocations :
    /\ (entry[i] = "nfts" /\ pc[i] \in {"resolved", "rejected"}) =>
         /\ Len(SelectSeq(apiLog[i], IsAddUSDValue)) = 1
         /\ SelectSeq(apiLog[i], IsAddUSDValue)[1].value = calculateGPUValue(allGPUs[i])
    /\ entry[i] = "nfts" =>
         /\ SelectSeq(apiLog[i], IsAdd) = << >>
         /\ SelectSeq(apiLog[i], IsCall) = << >>
         /\ (apiLog[i] # << >> => pc[i] = "resolved" /\ outstanding[i] = {} /\ inbox[i] = "none")
    /\ entry[i] = "tokens" =>
         /\ Len(SelectSeq(apiLog[i], IsCall)) = 1
         /\ Len(SelectSeq(apiLog[i], IsAdd)) <= 1
         /\ SelectSeq(apiLog[i], IsAddUSDValue) = << >>
         /\ httpLog[i] = << >>

====
